---- MODULE Spec2Model ----
(***************************************************************************)
(* Enixnel v0.1: the in-memory entry table (kernel/crtfiles.c,             *)
(* kernel/delfiles.c, include/fs.h) and the calls its client makes on it.  *)
(*                                                                         *)
(* A C string is a sequence of one-character strings; the bytes after the  *)
(* terminating NUL of a name buffer are never read by the code and are not *)
(* part of the state.  The data buffer of a slot is kept whole, stale      *)
(* bytes included: data is a function on 0 .. ENIXNEL_MAX_FILE_SIZE - 1,   *)
(* indexed as the C array is.  Every pointer argument is non-null, as it   *)
(* is at every call site of kernel/main.c.                                 *)
(*                                                                         *)
(* Three specifications share the module: Spec (the fs_* calls on the      *)
(* table), SpecCli (the command interpreter of kernel/main.c, one line at  *)
(* a time) and SpecPath (the path helpers as pure functions).              *)
(***************************************************************************)
EXTENDS Integers, Sequences, FiniteSets, TLC

(* ---------------- sizes (include/fs.h), scaled down ---------------- *)

\* fs.h:9 has 128 slots, fs.h:10 names of 31 characters, fs.h:11 files of
\* 512 bytes; the model keeps the three limits and scales their values.
ENIXNEL_MAX_FS_ENTRIES == 4
ENIXNEL_MAX_NAME_LEN == 5
ENIXNEL_MAX_FILE_SIZE == 3

\* Calls made after the initial layout in one behaviour of Spec.
MaxCalls == 3

\* Lines typed in one behaviour of SpecCli.
MaxLines == 5

\* char cmd[16] of cli_handle_line.
CMD_SIZE == 16

Slots == 0 .. (ENIXNEL_MAX_FS_ENTRIES - 1)
Offsets == 0 .. (ENIXNEL_MAX_FILE_SIZE - 1)

Min(a, b) == IF a < b THEN a ELSE b

\* A name of n characters, all "x".
Fill(n) == [i \in 1 .. n |-> "x"]

\* n bytes 1, 2, 1, 2, ... (never NUL).
Ramp(n) == [i \in 1 .. n |-> 2 - (i % 2)]

\* The names the client passes: empty, the layout's, a fresh short one, one
\* of exactly the maximum length and one a character longer.
NameInputs ==
    { <<>>, <<"b">>, <<"u">>, <<"b", "/", "e">>, <<"a">>,
      Fill(ENIXNEL_MAX_NAME_LEN), Fill(ENIXNEL_MAX_NAME_LEN + 1) }

\* The byte sequences the client writes: empty, short ones, one that fills
\* the file exactly and one that does not fit.
DataInputs ==
    { <<>>, <<1>>, <<2>>,
      Ramp(ENIXNEL_MAX_FILE_SIZE), Ramp(ENIXNEL_MAX_FILE_SIZE + 1) }

\* fs_entries and current_dir are the program's globals.  pc is the place of
\* the interpreter loop; call, pre and pre_dir record the last call or line
\* and the globals before it; out is what the last line printed; ncalls
\* counts calls or lines; path is the working record of SpecPath.
VARIABLES fs_entries, current_dir, pc, call, pre, pre_dir, out, ncalls, path

vars == <<fs_entries, current_dir, pc, call, pre, pre_dir, out, ncalls, path>>

(* ---------------- strings and paths (kernel/main.c) ---------------- *)

k_strlen(s) == Len(s)

\* k_streq: 1 when the two strings are equal character for character.
k_streq(a, b) == IF a = b THEN 1 ELSE 0

\* The first n characters of s (all of s when it is shorter).
Prefix(s, n) == SubSeq(s, 1, Min(Len(s), n))

\* path_join with the copy of dir not stopped at the end of the buffer.
path_join_nobound(dir, name, out_size) ==
    LET dlen == k_strlen(dir)
        nlen == k_strlen(name)
        d == dir
        sep == IF Len(d) < out_size - 1 THEN <<"/">> ELSE <<>>
        n == Prefix(name, (out_size - 1) - (Len(d) + Len(sep)))
    IN  IF dlen = 0
        THEN SubSeq(name, 1, IF nlen >= out_size THEN out_size - 1 ELSE nlen)
        ELSE d \o sep \o n

\* path_join(dir, name, out, out_size), out_size > 0: the three copy loops,
\* each stopped at out_size - 1 characters.
path_join(dir, name, out_size) ==
    LET dlen == k_strlen(dir)
        nlen == k_strlen(name)
        d == Prefix(dir, out_size - 1)
        sep == IF Len(d) < out_size - 1 THEN <<"/">> ELSE <<>>
        n == Prefix(name, (out_size - 1) - (Len(d) + Len(sep)))
    IN  IF dlen = 0
        THEN SubSeq(name, 1, IF nlen >= out_size THEN out_size - 1 ELSE nlen)
        ELSE d \o sep \o n

\* The scan "while (k > 0 && path[k - 1] != '/') --k" from k = len: the number
\* of characters up to and including the last '/', 0 when there is none.
LastSlash(s) ==
    LET at == {k \in 1 .. Len(s) : s[k] = "/"}
    IN  IF at = {} THEN 0 ELSE CHOOSE k \in at : \A j \in at : j <= k

\* path_parent that copies the last '/' as well.
path_parent_keepslash(s, out_size) ==
    LET last_slash == LastSlash(s)
        plen == last_slash
    IN  IF k_strlen(s) = 0 \/ last_slash = 0 THEN <<>>
        ELSE SubSeq(s, 1, IF plen >= out_size THEN out_size - 1 ELSE plen)

\* path_parent(path, out, out_size), out_size > 0.
path_parent(s, out_size) ==
    LET last_slash == LastSlash(s)
        plen == last_slash - 1
    IN  IF k_strlen(s) = 0 \/ last_slash = 0 THEN <<>>
        ELSE SubSeq(s, 1, IF plen >= out_size THEN out_size - 1 ELSE plen)

\* path_basename that starts at the last '/' instead of after it.
path_basename_withslash(s, out_size) ==
    LET len == k_strlen(s)
        start == IF LastSlash(s) > 0 THEN LastSlash(s) - 1 ELSE 0
        blen == len - start
    IN  IF len = 0 THEN <<>>
        ELSE SubSeq(s, start + 1,
                    start + (IF blen >= out_size THEN out_size - 1 ELSE blen))

\* path_basename(path, out, out_size), out_size > 0.
path_basename(s, out_size) ==
    LET len == k_strlen(s)
        start == LastSlash(s)
        blen == len - start
    IN  IF len = 0 THEN <<>>
        ELSE SubSeq(s, start + 1,
                    start + (IF blen >= out_size THEN out_size - 1 ELSE blen))

\* sizeof of the name buffers of the interpreter.
NAME_BUF == ENIXNEL_MAX_NAME_LEN + 1

(* ---------------- the table ---------------- *)

\* A slot of the zero-initialised static table.
ZeroEntry ==
    [used |-> 0, is_dir |-> 0, name |-> <<>>, size |-> 0,
     data |-> [i \in Offsets |-> 0]]

ZeroTable == [i \in Slots |-> ZeroEntry]

fs_strlen(s) == Len(s)

\* fs_find_index with the scan stopping one slot early.
fs_find_index_shortscan(t, name) ==
    LET hits == {i \in Slots : /\ i < ENIXNEL_MAX_FS_ENTRIES - 1
                               /\ t[i].used = 1 /\ t[i].name = name}
    IN  IF hits = {} THEN -1
        ELSE CHOOSE i \in hits : \A j \in hits : i <= j

\* Lowest used slot whose name equals `name` character for character, or -1.
fs_find_index(t, name) ==
    LET hits == {i \in Slots : t[i].used = 1 /\ t[i].name = name}
    IN  IF hits = {} THEN -1
        ELSE CHOOSE i \in hits : \A j \in hits : i <= j

\* The scan for a free slot run from the last slot down.
FirstFree_highest(t) ==
    LET free == {i \in Slots : t[i].used = 0}
    IN  IF free = {} THEN -1
        ELSE CHOOSE i \in free : \A j \in free : i >= j

\* The first free slot, or -1.
FirstFree(t) ==
    LET free == {i \in Slots : t[i].used = 0}
    IN  IF free = {} THEN -1
        ELSE CHOOSE i \in free : \A j \in free : i <= j

\* fs_alloc_entry without the rejection of names that are too long.
fs_alloc_entry_nolencheck(t, name, is_dir) ==
    LET len == fs_strlen(name)
        i == FirstFree(t)
    IN  IF len = 0 THEN [ret |-> -1, fs |-> t]
        ELSE IF fs_find_index(t, name) >= 0 THEN [ret |-> -1, fs |-> t]
        ELSE IF i < 0 THEN [ret |-> -1, fs |-> t]
        ELSE [ret |-> i,
              fs |-> [t EXCEPT ![i] =
                        [used |-> 1, is_dir |-> is_dir, name |-> name,
                         size |-> 0,
                         data |-> IF is_dir = 0
                                  THEN [t[i].data EXCEPT ![0] = 0]
                                  ELSE t[i].data]]]

\* fs_alloc_entry without the rejection of duplicates.
fs_alloc_entry_nodup(t, name, is_dir) ==
    LET len == fs_strlen(name)
        i == FirstFree(t)
    IN  IF len = 0 \/ len > ENIXNEL_MAX_NAME_LEN THEN [ret |-> -1, fs |-> t]
        ELSE IF i < 0 THEN [ret |-> -1, fs |-> t]
        ELSE [ret |-> i,
              fs |-> [t EXCEPT ![i] =
                        [used |-> 1, is_dir |-> is_dir, name |-> name,
                         size |-> 0,
                         data |-> IF is_dir = 0
                                  THEN [t[i].data EXCEPT ![0] = 0]
                                  ELSE t[i].data]]]

\* fs_alloc_entry with a copy loop that keeps room for the terminator inside
\* the first ENIXNEL_MAX_NAME_LEN bytes: the last character of a name of the
\* maximum length is dropped.
fs_alloc_entry_shortcopy(t, name, is_dir) ==
    LET len == fs_strlen(name)
        i == FirstFree(t)
    IN  IF len = 0 \/ len > ENIXNEL_MAX_NAME_LEN THEN [ret |-> -1, fs |-> t]
        ELSE IF fs_find_index(t, name) >= 0 THEN [ret |-> -1, fs |-> t]
        ELSE IF i < 0 THEN [ret |-> -1, fs |-> t]
        ELSE [ret |-> i,
              fs |-> [t EXCEPT ![i] =
                        [used |-> 1, is_dir |-> is_dir,
                         name |-> SubSeq(name, 1,
                                         Min(len, ENIXNEL_MAX_NAME_LEN - 1)),
                         size |-> 0,
                         data |-> IF is_dir = 0
                                  THEN [t[i].data EXCEPT ![0] = 0]
                                  ELSE t[i].data]]]

\* fs_alloc_entry with the size reset moved inside "if (!is_dir)".
fs_alloc_entry_filesize(t, name, is_dir) ==
    LET len == fs_strlen(name)
        i == FirstFree(t)
    IN  IF len = 0 \/ len > ENIXNEL_MAX_NAME_LEN THEN [ret |-> -1, fs |-> t]
        ELSE IF fs_find_index(t, name) >= 0 THEN [ret |-> -1, fs |-> t]
        ELSE IF i < 0 THEN [ret |-> -1, fs |-> t]
        ELSE [ret |-> i,
              fs |-> [t EXCEPT ![i] =
                        [used |-> 1, is_dir |-> is_dir, name |-> name,
                         size |-> IF is_dir = 0 THEN 0 ELSE t[i].size,
                         data |-> IF is_dir = 0
                                  THEN [t[i].data EXCEPT ![0] = 0]
                                  ELSE t[i].data]]]

\* fs_alloc_entry: [ret |-> slot or -1, fs |-> the table afterwards].
fs_alloc_entry(t, name, is_dir) ==
    LET len == fs_strlen(name)
        i == FirstFree(t)
    IN  IF len = 0 \/ len > ENIXNEL_MAX_NAME_LEN THEN [ret |-> -1, fs |-> t]
        ELSE IF fs_find_index(t, name) >= 0 THEN [ret |-> -1, fs |-> t]
        ELSE IF i < 0 THEN [ret |-> -1, fs |-> t]
        ELSE [ret |-> i,
              fs |-> [t EXCEPT ![i] =
                        [used |-> 1, is_dir |-> is_dir, name |-> name,
                         size |-> 0,
                         data |-> IF is_dir = 0
                                  THEN [t[i].data EXCEPT ![0] = 0]
                                  ELSE t[i].data]]]

fs_create_dir(t, name) ==
    LET a == fs_alloc_entry(t, name, 1)
    IN  [ret |-> IF a.ret >= 0 THEN 0 ELSE -1, fs |-> a.fs]

fs_create_file(t, name) ==
    LET a == fs_alloc_entry(t, name, 0)
    IN  [ret |-> IF a.ret >= 0 THEN 0 ELSE -1, fs |-> a.fs]

\* The clearing of a slot without "used = 0".
ClearEntry_keepused(e) == [e EXCEPT !.is_dir = 0, !.name = <<>>]

\* The slot after "used = 0; is_dir = 0; name[0] = '\0'": size and data stay.
ClearEntry(e) == [e EXCEPT !.used = 0, !.is_dir = 0, !.name = <<>>]

\* fs_delete_dir without the test of the kind.
fs_delete_dir_nokind(t, name) ==
    LET idx == fs_find_index(t, name)
    IN  IF idx < 0 THEN [ret |-> -1, fs |-> t]
        ELSE [ret |-> 0, fs |-> [t EXCEPT ![idx] = ClearEntry(t[idx])]]

\* fs_delete_dir that refuses a directory some used entry has as parent.
fs_delete_dir_nonempty(t, name) ==
    LET idx == fs_find_index(t, name)
    IN  IF idx < 0 THEN [ret |-> -1, fs |-> t]
        ELSE IF t[idx].is_dir = 0 THEN [ret |-> -1, fs |-> t]
        ELSE IF \E j \in Slots : /\ t[j].used = 1
                                  /\ path_parent(t[j].name, NAME_BUF) = name
             THEN [ret |-> -1, fs |-> t]
        ELSE [ret |-> 0, fs |-> [t EXCEPT ![idx] = ClearEntry(t[idx])]]

fs_delete_dir(t, name) ==
    LET idx == fs_find_index(t, name)
    IN  IF idx < 0 THEN [ret |-> -1, fs |-> t]
        ELSE IF t[idx].is_dir = 0 THEN [ret |-> -1, fs |-> t]
        ELSE [ret |-> 0, fs |-> [t EXCEPT ![idx] = ClearEntry(t[idx])]]

fs_delete_file(t, name) ==
    LET idx == fs_find_index(t, name)
    IN  IF idx < 0 THEN [ret |-> -1, fs |-> t]
        ELSE IF t[idx].is_dir = 1 THEN [ret |-> -1, fs |-> t]
        ELSE [ret |-> 0, fs |-> [t EXCEPT ![idx] = ClearEntry(t[idx])]]

\* The copy loop with the new size taken from the unclamped length.
WriteAt_noclamp(t, idx, data, append) ==
    LET e == t[idx]
        offset == IF append = 1 THEN e.size ELSE 0
        space == ENIXNEL_MAX_FILE_SIZE - offset
        len == Min(Len(data), space)
        end == offset + len
        copied == [i \in Offsets |->
                     IF offset <= i /\ i < end THEN data[i - offset + 1]
                     ELSE e.data[i]]
        term == IF end < ENIXNEL_MAX_FILE_SIZE THEN end
                ELSE ENIXNEL_MAX_FILE_SIZE - 1
    IN  IF offset >= ENIXNEL_MAX_FILE_SIZE THEN [ret |-> -1, fs |-> t]
        ELSE [ret |-> 0,
              fs |-> [t EXCEPT ![idx] =
                        [e EXCEPT !.size = offset + Len(data),
                                  !.data = [copied EXCEPT ![term] = 0]]]]

\* The copy loop and the terminator of fs_write_file on slot idx of table t.
WriteAt(t, idx, data, append) ==
    LET e == t[idx]
        offset == IF append = 1 THEN e.size ELSE 0
        space == ENIXNEL_MAX_FILE_SIZE - offset
        len == Min(Len(data), space)
        end == offset + len
        copied == [i \in Offsets |->
                     IF offset <= i /\ i < end THEN data[i - offset + 1]
                     ELSE e.data[i]]
        term == IF end < ENIXNEL_MAX_FILE_SIZE THEN end
                ELSE ENIXNEL_MAX_FILE_SIZE - 1
    IN  IF offset >= ENIXNEL_MAX_FILE_SIZE THEN [ret |-> -1, fs |-> t]
        ELSE [ret |-> 0,
              fs |-> [t EXCEPT ![idx] =
                        [e EXCEPT !.size = end,
                                  !.data = [copied EXCEPT ![term] = 0]]]]

\* fs_write_file without the test that refuses a directory.
fs_write_file_nodircheck(t, name, data, append) ==
    LET idx == fs_find_index(t, name)
        a == fs_alloc_entry(t, name, 0)
    IN  IF idx >= 0
        THEN WriteAt(t, idx, data, append)
        ELSE IF a.ret < 0 THEN [ret |-> -1, fs |-> t]
             ELSE WriteAt([a.fs EXCEPT ![a.ret].size = 0,
                                       ![a.ret].data[0] = 0],
                          a.ret, data, append)

fs_write_file(t, name, data, append) ==
    LET idx == fs_find_index(t, name)
        a == fs_alloc_entry(t, name, 0)
    IN  IF idx >= 0
        THEN IF t[idx].is_dir = 1 THEN [ret |-> -1, fs |-> t]
             ELSE WriteAt(t, idx, data, append)
        ELSE IF a.ret < 0 THEN [ret |-> -1, fs |-> t]
             ELSE WriteAt([a.fs EXCEPT ![a.ret].size = 0,
                                       ![a.ret].data[0] = 0],
                          a.ret, data, append)

\* fs_read_file: out_len is the size, out_data the buffer it points into.
fs_read_file(t, name) ==
    LET idx == fs_find_index(t, name)
    IN  IF idx < 0 THEN [ret |-> -1, out_len |-> 0, out_data |-> <<>>]
        ELSE IF t[idx].is_dir = 1
             THEN [ret |-> -1, out_len |-> 0, out_data |-> <<>>]
        ELSE [ret |-> 0, out_len |-> t[idx].size,
              out_data |-> [i \in 1 .. ENIXNEL_MAX_FILE_SIZE |->
                              t[idx].data[i - 1]]]

\* fs_init_layout, scaled: /bin and /user, and one command file under /bin.
\* The return codes are ignored, as in the source.
fs_init_layout ==
    LET t1 == fs_create_dir(ZeroTable, <<"b">>).fs
        t2 == fs_create_dir(t1, <<"u">>).fs
    IN  fs_create_file(t2, <<"b", "/", "e">>).fs

(* ---------------- the listing (kernel/main.c) ---------------- *)

\* The line cli_cmd_sdir prints for slot i: the tag of the kind and the
\* basename.
SdirLine(t, i) ==
    <<IF t[i].is_dir = 1 THEN "[DIR]  " ELSE "[FILE] ",
      path_basename(t[i].name, NAME_BUF)>>

\* The loop of cli_cmd_sdir with the test "is dir the start of the name" in
\* place of "is dir the parent of the name".
RECURSIVE SdirFrom_prefix(_, _, _)
SdirFrom_prefix(t, dir, i) ==
    IF i >= ENIXNEL_MAX_FS_ENTRIES THEN <<>>
    ELSE IF t[i].used = 0 THEN SdirFrom_prefix(t, dir, i + 1)
    ELSE IF k_streq(Prefix(t[i].name, Len(dir)), dir) = 0
         THEN SdirFrom_prefix(t, dir, i + 1)
    ELSE <<SdirLine(t, i)>> \o SdirFrom_prefix(t, dir, i + 1)

\* The loop of cli_cmd_sdir from slot i on: the lines of the used entries
\* whose parent is dir, in slot order.
RECURSIVE SdirFrom(_, _, _)
SdirFrom(t, dir, i) ==
    IF i >= ENIXNEL_MAX_FS_ENTRIES THEN <<>>
    ELSE IF t[i].used = 0 THEN SdirFrom(t, dir, i + 1)
    ELSE IF k_streq(path_parent(t[i].name, NAME_BUF), dir) = 0
         THEN SdirFrom(t, dir, i + 1)
    ELSE <<SdirLine(t, i)>> \o SdirFrom(t, dir, i + 1)

\* cli_cmd_sdir: what it prints with current directory dir.
cli_cmd_sdir(t, dir) ==
    LET lines == SdirFrom(t, dir, 0)
    IN  IF lines = <<>> THEN <<<<"sdir: no entries", <<>>>>>> ELSE lines

(* ---------------- the command line (kernel/main.c) ---------------- *)

\* The number of spaces s starts with.
LeadingSpaces(s) ==
    LET others == {k \in 1 .. Len(s) : s[k] # " "}
    IN  IF others = {} THEN Len(s)
        ELSE (CHOOSE k \in others : \A j \in others : k <= j) - 1

\* "while (*p == ' ') ++p;"
SkipSpaces(s) == SubSeq(s, LeadingSpaces(s) + 1, Len(s))

\* The number of characters a token loop copies from s into a buffer that
\* holds max characters: up to the first space or the end.
TokenLen(s, max) ==
    LET spaces == {k \in 1 .. Len(s) : s[k] = " "}
        end == IF spaces = {} THEN Len(s)
               ELSE (CHOOSE k \in spaces : \A j \in spaces : k <= j) - 1
    IN  Min(end, max)

\* cli_split_command: the command token, cut to the buffer, and the rest
\* of the line after the spaces that follow what was copied.
cli_split_command(line, cmd_out_size) ==
    LET p == SkipSpaces(line)
        cmd_len == TokenLen(p, cmd_out_size - 1)
    IN  [cmd |-> SubSeq(p, 1, cmd_len),
         args |-> SkipSpaces(SubSeq(p, cmd_len + 1, Len(p)))]

cli_first_arg(args, arg_out_size) ==
    LET p == SkipSpaces(args)
    IN  SubSeq(p, 1, TokenLen(p, arg_out_size - 1))

\* The byte a character of a line is stored as in a file.
Ascii(c) ==
    CASE c = " " -> 32
      [] c = "." -> 46
      [] c = "/" -> 47
      [] c = ">" -> 62
      [] c = "a" -> 97
      [] c = "b" -> 98
      [] c = "c" -> 99
      [] c = "d" -> 100
      [] c = "e" -> 101
      [] c = "h" -> 104
      [] c = "u" -> 117
      [] c = "x" -> 120
      [] OTHER -> 63

\* What a command leaves behind: the table, the current directory and the
\* lines it printed, each a fixed text followed by a variable one.
Done(t, dir, lines) == [fs |-> t, dir |-> dir, out |-> lines]

cli_cmd_help(t, dir) ==
    Done(t, dir,
         << <<"Available commands:", <<>>>>,
            <<"  help              - show this help", <<>>>>,
            <<"  echo <text>       - print text", <<>>>>,
            <<"  crtdir <name>     - create directory", <<>>>>,
            <<"  cfile <name>      - create file", <<>>>>,
            <<"  deldir <name>     - delete directory", <<>>>>,
            <<"  dfile <name>      - delete file", <<>>>>,
            <<"  sdir              - list entries in current directory",
              <<>>>>,
            <<"  sfile <name>      - show file contents", <<>>>>,
            <<"  efile <expr>      - edit file (efile text > file, efile text >> file)",
              <<>>>>,
            <<"  clr               - clear the screen", <<>>>>,
            <<"  cd <name>         - change directory (.. for parent)",
              <<>>>> >>)

cli_cmd_echo(t, dir, args) == Done(t, dir, << <<"", args>> >>)

\* cli_cmd_crtdir that also enters the directory it created.
cli_cmd_crtdir_enter(t, dir, args) ==
    LET name == cli_first_arg(args, NAME_BUF)
        full == path_join(dir, name, NAME_BUF)
        r == fs_create_dir(t, full)
    IN  IF name = <<>>
        THEN Done(t, dir, << <<"crtdir: missing name", <<>>>> >>)
        ELSE IF r.ret = 0
        THEN Done(r.fs, full, << <<"Directory created: ", name>> >>)
        ELSE Done(r.fs, dir, << <<"crtdir: failed to create ", name>> >>)

cli_cmd_crtdir(t, dir, args) ==
    LET name == cli_first_arg(args, NAME_BUF)
        full == path_join(dir, name, NAME_BUF)
        r == fs_create_dir(t, full)
    IN  IF name = <<>>
        THEN Done(t, dir, << <<"crtdir: missing name", <<>>>> >>)
        ELSE IF r.ret = 0
        THEN Done(r.fs, dir, << <<"Directory created: ", name>> >>)
        ELSE Done(r.fs, dir, << <<"crtdir: failed to create ", name>> >>)

cli_cmd_cfile(t, dir, args) ==
    LET name == cli_first_arg(args, NAME_BUF)
        full == path_join(dir, name, NAME_BUF)
        r == fs_create_file(t, full)
    IN  IF name = <<>>
        THEN Done(t, dir, << <<"cfile: missing name", <<>>>> >>)
        ELSE IF r.ret = 0
        THEN Done(r.fs, dir, << <<"File created: ", name>> >>)
        ELSE Done(r.fs, dir, << <<"cfile: failed to create ", name>> >>)

cli_cmd_deldir(t, dir, args) ==
    LET name == cli_first_arg(args, NAME_BUF)
        full == path_join(dir, name, NAME_BUF)
        r == fs_delete_dir(t, full)
    IN  IF name = <<>>
        THEN Done(t, dir, << <<"deldir: missing name", <<>>>> >>)
        ELSE IF r.ret = 0
        THEN Done(r.fs, dir, << <<"Directory deleted: ", name>> >>)
        ELSE Done(r.fs, dir, << <<"deldir: failed to delete ", name>> >>)

cli_cmd_dfile(t, dir, args) ==
    LET name == cli_first_arg(args, NAME_BUF)
        full == path_join(dir, name, NAME_BUF)
        r == fs_delete_file(t, full)
    IN  IF name = <<>>
        THEN Done(t, dir, << <<"dfile: missing name", <<>>>> >>)
        ELSE IF r.ret = 0
        THEN Done(r.fs, dir, << <<"File deleted: ", name>> >>)
        ELSE Done(r.fs, dir, << <<"dfile: failed to delete ", name>> >>)

cli_cmd_clr(t, dir) == Done(t, dir, <<>>)

\* cli_cmd_sfile: the bytes of the file make the line it prints.
cli_cmd_sfile(t, dir, args) ==
    LET name == cli_first_arg(args, NAME_BUF)
        full == path_join(dir, name, NAME_BUF)
        r == fs_read_file(t, full)
    IN  IF name = <<>>
        THEN Done(t, dir, << <<"sfile: missing name", <<>>>> >>)
        ELSE IF r.ret # 0
        THEN Done(t, dir, << <<"sfile: no such file: ", name>> >>)
        ELSE Done(t, dir, << <<"", SubSeq(r.out_data, 1, r.out_len)>> >>)

\* The index of the first '>' of s, or 0.
FirstRedir(s) ==
    LET at == {k \in 1 .. Len(s) : s[k] = ">"}
    IN  IF at = {} THEN 0 ELSE CHOOSE k \in at : \A j \in at : k <= j

\* s without the spaces it ends with.
TrimRight(s) ==
    LET others == {k \in 1 .. Len(s) : s[k] # " "}
    IN  IF others = {} THEN <<>>
        ELSE SubSeq(s, 1, CHOOSE k \in others : \A j \in others : j <= k)

\* cli_cmd_efile that keeps the spaces between the text and the '>'.
cli_cmd_efile_notrim(t, dir, args) ==
    LET p == SkipSpaces(args)
        redir == FirstRedir(p)
        trimmed == SubSeq(p, 1, redir - 1)
        text_len == IF Len(trimmed) >= ENIXNEL_MAX_FILE_SIZE
                    THEN ENIXNEL_MAX_FILE_SIZE - 1
                    ELSE Len(trimmed)
        text == [i \in 1 .. text_len |-> Ascii(trimmed[i])]
        append == IF redir < Len(p) /\ p[redir + 1] = ">" THEN 1 ELSE 0
        after == SkipSpaces(SubSeq(p, redir + 1 + append, Len(p)))
        name == SubSeq(after, 1, TokenLen(after, NAME_BUF - 1))
        full == path_join(dir, name, NAME_BUF)
        w == fs_write_file(t, full, text, append)
    IN  IF redir = 0
        THEN Done(t, dir, << <<"efile: missing '>'", <<>>>> >>)
        ELSE IF after = <<>>
        THEN Done(t, dir, << <<"efile: missing file name", <<>>>> >>)
        ELSE IF w.ret # 0
        THEN Done(w.fs, dir, << <<"efile: failed to write ", name>> >>)
        ELSE Done(w.fs, dir, <<>>)

\* cli_cmd_efile: "text > name" or "text >> name".
cli_cmd_efile(t, dir, args) ==
    LET p == SkipSpaces(args)
        redir == FirstRedir(p)
        trimmed == TrimRight(SubSeq(p, 1, redir - 1))
        text_len == IF Len(trimmed) >= ENIXNEL_MAX_FILE_SIZE
                    THEN ENIXNEL_MAX_FILE_SIZE - 1
                    ELSE Len(trimmed)
        text == [i \in 1 .. text_len |-> Ascii(trimmed[i])]
        append == IF redir < Len(p) /\ p[redir + 1] = ">" THEN 1 ELSE 0
        after == SkipSpaces(SubSeq(p, redir + 1 + append, Len(p)))
        name == SubSeq(after, 1, TokenLen(after, NAME_BUF - 1))
        full == path_join(dir, name, NAME_BUF)
        w == fs_write_file(t, full, text, append)
    IN  IF redir = 0
        THEN Done(t, dir, << <<"efile: missing '>'", <<>>>> >>)
        ELSE IF after = <<>>
        THEN Done(t, dir, << <<"efile: missing file name", <<>>>> >>)
        ELSE IF w.ret # 0
        THEN Done(w.fs, dir, << <<"efile: failed to write ", name>> >>)
        ELSE Done(w.fs, dir, <<>>)

\* cli_cmd_cd without the test of the kind of the target.
cli_cmd_cd_nokind(t, dir, args) ==
    LET name == cli_first_arg(args, NAME_BUF)
        parent == path_parent(dir, NAME_BUF)
        target == path_join(dir, name, NAME_BUF)
        idx == fs_find_index(t, target)
    IN  IF name = <<>>
        THEN Done(t, dir, << <<"cd: missing name", <<>>>> >>)
        ELSE IF k_streq(name, <<".">>) = 1
        THEN Done(t, dir, <<>>)
        ELSE IF k_streq(name, <<".", ".">>) = 1
        THEN Done(t, Prefix(parent, NAME_BUF - 1), <<>>)
        ELSE IF idx < 0 \/ t[idx].used = 0
        THEN Done(t, dir, << <<"cd: no such directory: ", name>> >>)
        ELSE Done(t, Prefix(target, NAME_BUF - 1), <<>>)

\* cli_cmd_cd: ".", "..", or a name joined to the current directory.
cli_cmd_cd(t, dir, args) ==
    LET name == cli_first_arg(args, NAME_BUF)
        parent == path_parent(dir, NAME_BUF)
        target == path_join(dir, name, NAME_BUF)
        idx == fs_find_index(t, target)
    IN  IF name = <<>>
        THEN Done(t, dir, << <<"cd: missing name", <<>>>> >>)
        ELSE IF k_streq(name, <<".">>) = 1
        THEN Done(t, dir, <<>>)
        ELSE IF k_streq(name, <<".", ".">>) = 1
        THEN Done(t, Prefix(parent, NAME_BUF - 1), <<>>)
        ELSE IF idx < 0 \/ t[idx].used = 0 \/ t[idx].is_dir = 0
        THEN Done(t, dir, << <<"cd: no such directory: ", name>> >>)
        ELSE Done(t, Prefix(target, NAME_BUF - 1), <<>>)

\* The command words cli_handle_line knows.
CMD_help == <<"h", "e", "l", "p">>

CMD_echo == <<"e", "c", "h", "o">>

CMD_crtdir == <<"c", "r", "t", "d", "i", "r">>

CMD_cfile == <<"c", "f", "i", "l", "e">>

CMD_deldir == <<"d", "e", "l", "d", "i", "r">>

CMD_dfile == <<"d", "f", "i", "l", "e">>

CMD_sdir == <<"s", "d", "i", "r">>

CMD_sfile == <<"s", "f", "i", "l", "e">>

CMD_efile == <<"e", "f", "i", "l", "e">>

CMD_clr == <<"c", "l", "r">>

CMD_cd == <<"c", "d">>

Commands ==
    {CMD_help, CMD_echo, CMD_crtdir, CMD_cfile, CMD_deldir, CMD_dfile,
     CMD_sdir, CMD_sfile, CMD_efile, CMD_clr, CMD_cd}

\* cli_handle_line on table t with current directory dir.
cli_handle_line(t, dir, line) ==
    LET s == cli_split_command(line, CMD_SIZE)
        cmd == s.cmd
        args == s.args
    IN  IF cmd = <<>> THEN Done(t, dir, <<>>)
        ELSE IF k_streq(cmd, CMD_help) = 1 THEN cli_cmd_help(t, dir)
        ELSE IF k_streq(cmd, CMD_echo) = 1 THEN cli_cmd_echo(t, dir, args)
        ELSE IF k_streq(cmd, CMD_crtdir) = 1 THEN cli_cmd_crtdir(t, dir, args)
        ELSE IF k_streq(cmd, CMD_cfile) = 1 THEN cli_cmd_cfile(t, dir, args)
        ELSE IF k_streq(cmd, CMD_deldir) = 1 THEN cli_cmd_deldir(t, dir, args)
        ELSE IF k_streq(cmd, CMD_dfile) = 1 THEN cli_cmd_dfile(t, dir, args)
        ELSE IF k_streq(cmd, CMD_sdir) = 1
             THEN Done(t, dir, cli_cmd_sdir(t, dir))
        ELSE IF k_streq(cmd, CMD_sfile) = 1 THEN cli_cmd_sfile(t, dir, args)
        ELSE IF k_streq(cmd, CMD_efile) = 1 THEN cli_cmd_efile(t, dir, args)
        ELSE IF k_streq(cmd, CMD_clr) = 1 THEN cli_cmd_clr(t, dir)
        ELSE IF k_streq(cmd, CMD_cd) = 1 THEN cli_cmd_cd(t, dir, args)
        ELSE Done(t, dir, << <<"Unknown command: ", cmd>> >>)

(* ---------------- calls ---------------- *)

NoCall ==
    [op |-> "none", name |-> <<>>, data |-> <<>>, append |-> 0, ret |-> 0]

NoPath ==
    [stage |-> "none", dir |-> <<>>, name |-> <<>>, size |-> 1,
     joined |-> <<>>, parent |-> <<>>, base |-> <<>>]

\* kernel_main, scaled: the user starts in /user.
DefaultDir == path_join(<<>>, <<"u">>, NAME_BUF)

\* The state in which cli_loop starts.
Init ==
    /\ fs_entries = fs_init_layout
    /\ current_dir = DefaultDir
    /\ pc = "await"
    /\ call = NoCall
    /\ pre = fs_init_layout
    /\ pre_dir = DefaultDir
    /\ out = <<>>
    /\ ncalls = 0
    /\ path = NoPath

\* One call on the table, run to its return: r is the operation's result.
Do(op, name, data, append, r) ==
    /\ pc = "await"
    /\ ncalls < MaxCalls
    /\ fs_entries' = r.fs
    /\ pre' = fs_entries
    /\ call' = [op |-> op, name |-> name, data |-> data, append |-> append,
                ret |-> r.ret]
    /\ pc' = "returned"
    /\ ncalls' = ncalls + 1
    /\ UNCHANGED <<current_dir, pre_dir, out, path>>

CreateDir ==
    \E name \in NameInputs :
        Do("create_dir", name, <<>>, 0, fs_create_dir(fs_entries, name))

CreateFile ==
    \E name \in NameInputs :
        Do("create_file", name, <<>>, 0, fs_create_file(fs_entries, name))

DeleteDir ==
    \E name \in NameInputs :
        Do("delete_dir", name, <<>>, 0, fs_delete_dir(fs_entries, name))

DeleteFile ==
    \E name \in NameInputs :
        Do("delete_file", name, <<>>, 0, fs_delete_file(fs_entries, name))

WriteFile ==
    \E name \in NameInputs, data \in DataInputs, append \in {0, 1} :
        Do("write", name, data, append,
           fs_write_file(fs_entries, name, data, append))

ReadFile ==
    \E name \in NameInputs :
        Do("read", name, <<>>, 0,
           [ret |-> fs_read_file(fs_entries, name).ret, fs |-> fs_entries])

\* A loop that ends at the first unknown command.
Return_ifknown ==
    /\ pc = "returned"
    /\ \A k \in 1 .. Len(out) : out[k][1] # "Unknown command: "
    /\ pc' = "await"
    /\ call' = NoCall
    /\ pre' = fs_entries
    /\ pre_dir' = current_dir
    /\ out' = <<>>
    /\ UNCHANGED <<fs_entries, current_dir, ncalls, path>>

\* The caller has looked at the result and awaits the next line.
Return ==
    /\ pc = "returned"
    /\ pc' = "await"
    /\ call' = NoCall
    /\ pre' = fs_entries
    /\ pre_dir' = current_dir
    /\ out' = <<>>
    /\ UNCHANGED <<fs_entries, current_dir, ncalls, path>>

Next ==
    \/ CreateDir
    \/ CreateFile
    \/ DeleteDir
    \/ DeleteFile
    \/ WriteFile
    \/ ReadFile
    \/ Return

Spec == Init /\ [][Next]_vars

(* ---------------- the path helpers as pure functions ---------------- *)

\* Every string of at most n characters drawn from chars.
Strings(chars, n) == UNION {[1 .. k -> chars] : k \in 0 .. n}

\* A prefix and a name as the interpreter can hold them, and the size of the
\* output buffer of path_join.
PathDirs == Strings({"a", "/"}, ENIXNEL_MAX_NAME_LEN)

PathNames == Strings({"b", "/"}, ENIXNEL_MAX_NAME_LEN)

PathSizes == 1 .. NAME_BUF

InitPath ==
    /\ fs_entries = fs_init_layout
    /\ current_dir = DefaultDir
    /\ pc = "await"
    /\ call = NoCall
    /\ pre = fs_init_layout
    /\ pre_dir = DefaultDir
    /\ out = <<>>
    /\ ncalls = 0
    /\ \E d \in PathDirs, n \in PathNames, z \in PathSizes :
         path = [stage |-> "in", dir |-> d, name |-> n, size |-> z,
                 joined |-> <<>>, parent |-> <<>>, base |-> <<>>]

PathFrame ==
    UNCHANGED <<fs_entries, current_dir, pc, call, pre, pre_dir, out, ncalls>>

PathJoin ==
    /\ path.stage = "in"
    /\ path' = [path EXCEPT !.stage = "joined",
                            !.joined = path_join(path.dir, path.name,
                                                 path.size)]
    /\ PathFrame

\* The parent and the basename of the joined path, each into a name buffer.
PathParent ==
    /\ path.stage = "joined"
    /\ path' = [path EXCEPT !.stage = "parent",
                            !.parent = path_parent(path.joined, NAME_BUF)]
    /\ PathFrame

PathBasename ==
    /\ path.stage = "parent"
    /\ path' = [path EXCEPT !.stage = "done",
                            !.base = path_basename(path.joined, NAME_BUF)]
    /\ PathFrame

NextPath ==
    \/ PathJoin
    \/ PathParent
    \/ PathBasename

SpecPath == InitPath /\ [][NextPath]_vars

(* ---------------- the interpreter loop (kernel/main.c) ---------------- *)

\* A command word followed by one space and an argument.
With(cmd, arg) == cmd \o <<" ">> \o arg

\* The lines console_read_line hands to cli_handle_line.
LineInputs ==
    {<<>>, <<" ">>,
     CMD_help, With(CMD_echo, <<"h">>), CMD_clr, <<"x">>, Fill(CMD_SIZE),
     CMD_crtdir, With(CMD_crtdir, <<"b">>),
     With(CMD_crtdir, <<"b", "/", "c">>), With(CMD_cd, <<"b", "/", "c">>),
     With(CMD_crtdir, Fill(ENIXNEL_MAX_NAME_LEN + 1)),
     With(CMD_cfile, <<"a">>), With(CMD_cfile, <<"b", "/", "c">>),
     With(CMD_deldir, <<"b">>), With(CMD_deldir, <<"u">>),
     With(CMD_dfile, <<"a">>), With(CMD_dfile, <<"b", "/", "e">>),
     CMD_sdir, <<" ">> \o CMD_sdir \o <<" ">>,
     With(CMD_sfile, <<"a">>),
     CMD_efile \o <<" ", "h", " ", ">", " ", "a">>,
     CMD_efile \o <<" ", "h", ">", ">", "a">>,
     With(CMD_efile, <<"h">>), With(CMD_efile, <<"h", " ", ">">>),
     With(CMD_efile, <<">", " ", "a">>),
     CMD_cd, With(CMD_cd, <<"b">>), With(CMD_cd, <<"a">>),
     With(CMD_cd, <<"u">>), With(CMD_cd, <<".">>),
     With(CMD_cd, <<".", ".">>),
     With(CMD_cd, Fill(ENIXNEL_MAX_NAME_LEN + 1))}

CmdOf(line) == cli_split_command(line, CMD_SIZE).cmd

ArgOf(line) == cli_first_arg(cli_split_command(line, CMD_SIZE).args, NAME_BUF)

\* One pass of the loop of cli_loop up to the return of cli_handle_line.
HandleLine(line) ==
    LET r == cli_handle_line(fs_entries, current_dir, line)
    IN  /\ pc = "await"
        /\ ncalls < MaxLines
        /\ fs_entries' = r.fs
        /\ current_dir' = r.dir
        /\ out' = r.out
        /\ pre' = fs_entries
        /\ pre_dir' = current_dir
        /\ call' = [op |-> "line", name |-> line, data |-> <<>>,
                    append |-> 0, ret |-> 0]
        /\ pc' = "returned"
        /\ ncalls' = ncalls + 1
        /\ UNCHANGED path

\* The lines whose command token is cmd.
LinesOf(cmd) == {line \in LineInputs : CmdOf(line) = cmd}

LineOf(cmd) == \E line \in LinesOf(cmd) : HandleLine(line)

EmptyLine == LineOf(<<>>)

Help == LineOf(CMD_help)

Echo == LineOf(CMD_echo)

Crtdir == LineOf(CMD_crtdir)

Cfile == LineOf(CMD_cfile)

Deldir == LineOf(CMD_deldir)

Dfile == LineOf(CMD_dfile)

Sdir == LineOf(CMD_sdir)

Sfile == LineOf(CMD_sfile)

Efile == LineOf(CMD_efile)

Clr == LineOf(CMD_clr)

Cd == LineOf(CMD_cd)

\* The lines whose command token is not empty and is no command word.
UnknownLines == {line \in LineInputs : CmdOf(line) \notin Commands \cup {<<>>}}

Unknown == \E line \in UnknownLines : HandleLine(line)

NextCli ==
    \/ EmptyLine
    \/ Help
    \/ Echo
    \/ Crtdir
    \/ Cfile
    \/ Deldir
    \/ Dfile
    \/ Sdir
    \/ Sfile
    \/ Efile
    \/ Clr
    \/ Cd
    \/ Unknown
    \/ Return

SpecCli == Init /\ [][NextCli]_vars

(* ---------------- vocabulary of the properties ---------------- *)

Returned == pc = "returned"

IsCreate == Returned /\ call.op \in {"create_dir", "create_file"}

IsDelete == Returned /\ call.op \in {"delete_dir", "delete_file"}

IsWrite == Returned /\ call.op = "write"

\* The kind a create call asks for.
AskedKind == IF call.op = "create_dir" THEN 1 ELSE 0

UsedSlots(t) == {i \in Slots : t[i].used = 1}

\* The used slots of t that hold exactly this name.
SlotsNamed(t, name) == {i \in UsedSlots(t) : t[i].name = name}

HasName(t, name) == SlotsNamed(t, name) # {}

HasFree(t) == UsedSlots(t) # Slots

ValidName(name) == Len(name) >= 1 /\ Len(name) <= ENIXNEL_MAX_NAME_LEN

IsFile(t, name) == \E i \in SlotsNamed(t, name) : t[i].is_dir = 0

IsDir(t, name) == \E i \in SlotsNamed(t, name) : t[i].is_dir = 1

\* The bytes a reader sees: the first `size` bytes of the buffer.
Content(e) == [k \in 1 .. e.size |-> e.data[k - 1]]

Take(b, n) == SubSeq(b, 1, Min(Len(b), n))

(* ---------------- C1 ---------------- *)

\* C1: in every reachable state no two used slots of the entry table hold
\* the same name.
C1_UniqueNames ==
    \A i \in Slots : \A j \in Slots :
        (fs_entries[i].used = 1 /\ fs_entries[j].used = 1
           /\ fs_entries[i].name = fs_entries[j].name) => i = j

\* A create has just filled the last free slot: every slot is used.
C1_Witness ==
    /\ IsCreate
    /\ call.ret = 0
    /\ UsedSlots(fs_entries) = Slots

(* ---------------- C2 ---------------- *)

\* C2: a create (file or directory) whose name is the name of a used entry
\* fails, whatever the two kinds are, and leaves every slot as it was.
C2_DuplicateCreateFails ==
    (IsCreate /\ HasName(pre, call.name))
        => (call.ret = -1 /\ fs_entries = pre)

\* A create of an existing name with the other kind was refused although a
\* slot was free.
C2_Witness ==
    /\ IsCreate
    /\ HasFree(pre)
    /\ \E i \in SlotsNamed(pre, call.name) : pre[i].is_dir # AskedKind
    /\ call.ret = -1

(* ---------------- C3 ---------------- *)

\* C3: for a name of 1 to max-length characters that is not in the table,
\* when a slot is free, create succeeds and a find of the name that follows
\* returns a used slot holding the name, character for character, with the
\* requested kind.
C3_CreateThenFind ==
    (IsCreate /\ ValidName(call.name) /\ ~HasName(pre, call.name)
       /\ HasFree(pre))
        => /\ call.ret = 0
           /\ LET i == fs_find_index(fs_entries, call.name)
              IN  /\ i \in Slots
                  /\ fs_entries[i].used = 1
                  /\ fs_entries[i].name = call.name
                  /\ fs_entries[i].is_dir = AskedKind

\* A directory with a name of exactly the maximum length has been created.
C3_Witness ==
    /\ IsCreate
    /\ call.op = "create_dir"
    /\ Len(call.name) = ENIXNEL_MAX_NAME_LEN
    /\ ~HasName(pre, call.name)
    /\ HasFree(pre)
    /\ call.ret = 0

(* ---------------- C4 ---------------- *)

\* C4: when all N slots are used, a create with a valid new name fails and
\* changes nothing; after a successful delete, a create of any valid name
\* that is not present succeeds; the used entries never number more than N.
C4_Capacity ==
    /\ (IsCreate /\ UsedSlots(pre) = Slots /\ ValidName(call.name)
          /\ ~HasName(pre, call.name))
         => (call.ret = -1 /\ fs_entries = pre)
    /\ (IsDelete /\ call.ret = 0)
         => \A name \in NameInputs :
              (ValidName(name) /\ ~HasName(fs_entries, name))
                => /\ fs_create_dir(fs_entries, name).ret = 0
                   /\ fs_create_file(fs_entries, name).ret = 0
    /\ Cardinality(UsedSlots(fs_entries)) <= ENIXNEL_MAX_FS_ENTRIES

\* An entry of a full table has just been deleted, and a valid name that is
\* not present can be created.
C4_Witness ==
    /\ IsDelete
    /\ call.ret = 0
    /\ UsedSlots(pre) = Slots
    /\ \E name \in NameInputs : ValidName(name) /\ ~HasName(fs_entries, name)

(* ---------------- C5 ---------------- *)

\* C5: delete-directory on the name of a used File, and delete-file on the
\* name of a used Directory, fail and leave that entry and every other slot
\* unchanged.
C5_WrongKindDelete ==
    (Returned
       /\ \/ (call.op = "delete_dir" /\ IsFile(pre, call.name))
          \/ (call.op = "delete_file" /\ IsDir(pre, call.name)))
        => (call.ret = -1 /\ fs_entries = pre)

\* delete-directory has been refused on a File that holds content.
C5_Witness ==
    /\ Returned
    /\ call.op = "delete_dir"
    /\ \E i \in SlotsNamed(pre, call.name) :
         pre[i].is_dir = 0 /\ pre[i].size > 0
    /\ call.ret = -1

(* ---------------- C6 ---------------- *)

\* C6: for a valid name that is not in the table, with a slot free, and any
\* byte sequence b, write(name, b, mode) succeeds in either mode and creates
\* a File of that name, and a read of the name that follows returns the
\* length min(|b|, capacity) and exactly the first min(|b|, capacity) bytes
\* of b, also when |b| is the capacity or more.
C6_WriteNewThenRead ==
    (IsWrite /\ ValidName(call.name) /\ ~HasName(pre, call.name)
       /\ HasFree(pre))
        => LET r == fs_read_file(fs_entries, call.name)
               n == Min(Len(call.data), ENIXNEL_MAX_FILE_SIZE)
           IN  /\ call.ret = 0
               /\ IsFile(fs_entries, call.name)
               /\ r.ret = 0
               /\ r.out_len = n
               /\ SubSeq(r.out_data, 1, r.out_len) = Take(call.data, n)

(* ---------------- C7 ---------------- *)

\* C7: for a File with content c, a successful Append of b1 followed by a
\* successful Append of b2 leaves c ++ b1 ++ b2 when it fits in the capacity,
\* and a successful Overwrite of b (that fits) leaves content exactly b and
\* length |b|, whatever writes came before.  The first Append and the
\* Overwrite are the call that has just returned; the second Append is
\* fs_write_file applied to the table that call left.
C7_AppendThenOverwrite ==
    (IsWrite /\ call.ret = 0)
      => \A i \in SlotsNamed(pre, call.name) :
           pre[i].is_dir = 0
             => LET c == Content(pre[i])
                    b1 == call.data
                IN  /\ call.append = 1
                      => \A b2 \in DataInputs :
                           LET r2 == fs_write_file(fs_entries, call.name,
                                                   b2, 1)
                           IN  (r2.ret = 0
                                  /\ Len(c) + Len(b1) + Len(b2)
                                       <= ENIXNEL_MAX_FILE_SIZE)
                                 => Content(r2.fs[i]) = c \o b1 \o b2
                    /\ (call.append = 0
                          /\ Len(call.data) <= ENIXNEL_MAX_FILE_SIZE)
                      => /\ Content(fs_entries[i]) = call.data
                         /\ fs_entries[i].size = Len(call.data)

(* ---------------- C8 ---------------- *)

\* The offset fs_write_file starts at in entry e.
StartOffset(e) == IF call.append = 1 THEN e.size ELSE 0

\* C8: a write to a File whose starting offset is below the capacity returns
\* success, also when the input does not fit, and sets the length to
\* min(offset + input length, capacity); so every used File has a length
\* between 0 and the capacity in every reachable state.
C8_WriteLength ==
    /\ IsWrite
         => \A i \in SlotsNamed(pre, call.name) :
              (pre[i].is_dir = 0
                 /\ StartOffset(pre[i]) < ENIXNEL_MAX_FILE_SIZE)
                => /\ call.ret = 0
                   /\ fs_entries[i].size =
                        Min(StartOffset(pre[i]) + Len(call.data),
                            ENIXNEL_MAX_FILE_SIZE)
    /\ \A i \in UsedSlots(fs_entries) :
         fs_entries[i].is_dir = 0
           => (fs_entries[i].size >= 0
                 /\ fs_entries[i].size <= ENIXNEL_MAX_FILE_SIZE)

\* An Append to a File that holds content returned success although the
\* input did not fit in what was left.
C8_Witness ==
    /\ IsWrite
    /\ call.append = 1
    /\ call.ret = 0
    /\ \E i \in SlotsNamed(pre, call.name) :
         /\ pre[i].is_dir = 0
         /\ pre[i].size > 0
         /\ pre[i].size + Len(call.data) > ENIXNEL_MAX_FILE_SIZE
         /\ fs_entries[i].size = ENIXNEL_MAX_FILE_SIZE

(* ---------------- C9 ---------------- *)

\* The three failures C9 names, as they stand before the call.
WriteToDirectory == IsDir(pre, call.name)

AppendToFullFile ==
    /\ call.append = 1
    /\ \E i \in SlotsNamed(pre, call.name) :
         pre[i].is_dir = 0 /\ pre[i].size = ENIXNEL_MAX_FILE_SIZE

AutoCreateFails ==
    /\ ~HasName(pre, call.name)
    /\ (UsedSlots(pre) = Slots \/ ~ValidName(call.name))

\* C9: every failed write leaves the whole table unchanged; a write to a
\* Directory, an Append to a File whose length is the capacity, and a write
\* to an absent name whose auto-create fails (table full, empty or over-long
\* name) each fail, create no entry and change no content or length.
C9_FailedWriteChangesNothing ==
    IsWrite
      => /\ (call.ret # 0 => fs_entries = pre)
         /\ (WriteToDirectory \/ AppendToFullFile \/ AutoCreateFails)
              => (call.ret = -1 /\ fs_entries = pre)

\* An Append of some bytes to a full File has failed although a slot of the
\* table was free.
C9_Witness ==
    /\ IsWrite
    /\ AppendToFullFile
    /\ Len(call.data) > 0
    /\ HasFree(pre)
    /\ call.ret = -1

\* The other two failures of C9 happen as well.
C9_WitnessDirectory == IsWrite /\ WriteToDirectory /\ call.ret = -1

C9_WitnessAutoCreate ==
    IsWrite /\ AutoCreateFails /\ ValidName(call.name) /\ call.ret = -1

(* ---------------- C10 ---------------- *)

\* C10: in every reachable state every used Directory has content length 0,
\* also one created in a slot a File with content held before; write and
\* read on a Directory's name always fail.
C10_DirectoryHasNoContent ==
    /\ \A i \in UsedSlots(fs_entries) :
         fs_entries[i].is_dir = 1
           => /\ fs_entries[i].size = 0
              /\ fs_read_file(fs_entries, fs_entries[i].name).ret = -1
              /\ \A b \in DataInputs : \A a \in {0, 1} :
                   fs_write_file(fs_entries, fs_entries[i].name, b, a).ret
                     = -1
    /\ (Returned /\ call.op \in {"write", "read"} /\ IsDir(pre, call.name))
         => (call.ret = -1 /\ fs_entries = pre)

\* A Directory has just been created in a slot whose buffer still holds the
\* bytes of the File that was there before.
C10_Witness ==
    /\ IsCreate
    /\ call.op = "create_dir"
    /\ call.ret = 0
    /\ \E i \in SlotsNamed(fs_entries, call.name) :
         /\ pre[i].used = 0
         /\ pre[i].size > 0
         /\ fs_entries[i].data[0] # 0
         /\ fs_entries[i].size = 0

(* ---------------- vocabulary of the command line ---------------- *)

\* A line has been handled; Cmd and Arg are its command token and its first
\* argument.
IsLine == Returned /\ call.op = "line"

Cmd == CmdOf(call.name)

Arg == ArgOf(call.name)

IsCd == IsLine /\ Cmd = CMD_cd

HasSlash(s) == \E k \in 1 .. Len(s) : s[k] = "/"

\* The position of the last separator of a name, 0 if it has none.
LastSep(n) ==
    IF HasSlash(n)
    THEN CHOOSE k \in 1 .. Len(n) :
           n[k] = "/" /\ \A j \in (k + 1) .. Len(n) : n[j] # "/"
    ELSE 0

\* The derived parent of a name: the name up to, excluding, the last
\* separator; empty if it has none.
ParentOf(n) == IF HasSlash(n) THEN SubSeq(n, 1, LastSep(n) - 1) ELSE <<>>

\* The basename of a name: what follows the last separator.
BaseOf(n) == SubSeq(n, LastSep(n) + 1, Len(n))

(* ---------------- C11 ---------------- *)

\* The full name a change-directory command looks up.
CdTarget == pre_dir \o (IF pre_dir = <<>> THEN <<>> ELSE <<"/">>) \o Arg

\* The full name as the name buffer holds it.
CdTargetInBuffer == Take(CdTarget, ENIXNEL_MAX_NAME_LEN)

\* C11: a change-directory command with an argument other than "." and ".."
\* makes join(current directory, argument) the current directory if a used
\* entry with exactly that full name exists and is a Directory; otherwise
\* (name absent, or a File) it fails and the current directory is unchanged.
\* The table is unchanged in both cases.
C11_ChangeDirectory ==
    (IsCd /\ Arg \notin {<<>>, <<".">>, <<".", ".">>})
      => /\ fs_entries = pre
         /\ IsDir(pre, CdTargetInBuffer)
              => (current_dir = CdTargetInBuffer /\ out = <<>>)
         /\ ~IsDir(pre, CdTargetInBuffer)
              => /\ current_dir = pre_dir
                 /\ out = << <<"cd: no such directory: ", Arg>> >>

\* Change-directory to the name of an existing File has failed.
C11_Witness ==
    /\ IsCd
    /\ IsFile(pre, CdTargetInBuffer)
    /\ current_dir = pre_dir
    /\ out # <<>>

\* Change-directory into an existing Directory below the current one.
C11_WitnessEntered ==
    /\ IsCd
    /\ pre_dir # <<>>
    /\ IsDir(pre, CdTargetInBuffer)
    /\ current_dir = CdTargetInBuffer
    /\ current_dir # pre_dir

(* ---------------- C12 ---------------- *)

IsSdir == IsLine /\ Cmd = CMD_sdir

\* The used entries whose derived parent is dir.
Listed(t, dir) == {i \in UsedSlots(t) : ParentOf(t[i].name) = dir}

\* The place of slot i among the listed slots, in increasing slot order.
Rank(t, dir, i) == Cardinality({j \in Listed(t, dir) : j <= i})

\* name lies below dir, at any depth.
Under(name, dir) ==
    IF dir = <<>> THEN TRUE
    ELSE /\ Len(name) > Len(dir) + 1
         /\ SubSeq(name, 1, Len(dir) + 1) = dir \o <<"/">>

\* C12: the listing command reports exactly the used entries whose derived
\* parent equals the current directory, each once, by basename and tagged
\* with its kind, in increasing slot order; it changes nothing.
C12_Listing ==
    IsSdir
      => /\ fs_entries = pre
         /\ current_dir = pre_dir
         /\ Listed(pre, pre_dir) = {}
              => out = << <<"sdir: no entries", <<>>>> >>
         /\ Listed(pre, pre_dir) # {}
              => /\ Len(out) = Cardinality(Listed(pre, pre_dir))
                 /\ \A i \in Listed(pre, pre_dir) :
                      out[Rank(pre, pre_dir, i)]
                        = <<IF pre[i].is_dir = 1 THEN "[DIR]  "
                            ELSE "[FILE] ",
                            BaseOf(pre[i].name)>>

\* A listing of a directory other than the root that shows an entry and
\* omits an entry deeper below it and an entry of another directory.
C12_Witness ==
    /\ IsSdir
    /\ pre_dir # <<>>
    /\ Listed(pre, pre_dir) # {}
    /\ \E j \in UsedSlots(pre) :
         Under(pre[j].name, pre_dir) /\ ParentOf(pre[j].name) # pre_dir
    /\ \E j \in UsedSlots(pre) :
         ~Under(pre[j].name, pre_dir) /\ pre[j].name # pre_dir
    /\ Len(out) = Cardinality(Listed(pre, pre_dir))

\* A listing that shows a Directory and a File, the File in a lower slot
\* first, and omits a deeper entry.
C12_WitnessOrder ==
    /\ IsSdir
    /\ \E i, j \in Listed(pre, pre_dir) :
         i < j /\ pre[i].is_dir = 0 /\ pre[j].is_dir = 1
    /\ \E j \in UsedSlots(pre) : j \notin Listed(pre, pre_dir)
    /\ out[1][1] = "[FILE] "

(* ---------------- C15 ---------------- *)

\* C15: the interpreter is either awaiting a line or has just handled one;
\* while it awaits, the handling of every line, on the table and in the
\* directory of that moment, comes to its end with a table, a current
\* directory and an output; after any line, whatever it printed, the return
\* to the await-line state is possible.
C15_LoopNeverStops ==
    /\ pc \in {"await", "returned"}
    /\ pc = "await"
         => \A line \in LineInputs :
              LET r == cli_handle_line(fs_entries, current_dir, line)
              IN  /\ DOMAIN r.fs = Slots
                  /\ Len(r.dir) <= ENIXNEL_MAX_NAME_LEN
                  /\ Len(r.out) >= 0
    /\ Returned => ENABLED Return

\* An unknown command has been handled, not as the first line, and the loop
\* can go on.
C15_Witness ==
    /\ IsLine
    /\ ncalls >= 2
    /\ Len(out) = 1
    /\ out[1][1] = "Unknown command: "
    /\ ENABLED Return

(* ---------------- C16 ---------------- *)

\* C16: the current directory is "user" (here "u") when the loop starts;
\* every line whose command is not change-directory, and change-directory
\* with ".", leaves the current directory as it was.
C16_CurrentDirFrame ==
    /\ ncalls = 0 => current_dir = <<"u">>
    /\ (IsLine /\ (Cmd # CMD_cd \/ Arg = <<".">>))
         => current_dir = pre_dir

\* A directory has been created and the current directory, another one than
\* at the start, has stayed.
C16_Witness ==
    /\ IsLine
    /\ Cmd = CMD_crtdir
    /\ fs_entries # pre
    /\ pre_dir # <<"u">>
    /\ current_dir = pre_dir

(* ---------------- C20 ---------------- *)

IsCdUp == IsCd /\ Arg = <<".", ".">>

\* The number of separators of a directory string.
NumSeps(d) == Cardinality({k \in 1 .. Len(d) : d[k] = "/"})

\* The current directory after n change-directory ".." commands from d.
RECURSIVE UpN(_, _, _)
UpN(t, d, n) ==
    IF n = 0 THEN d
    ELSE UpN(t, cli_cmd_cd(t, d, <<".", ".">>).dir, n - 1)

\* C20: change-directory ".." makes the derived parent of the current
\* directory the current directory, whatever the table holds, and changes
\* nothing else; from any current directory, (number of separators + 1)
\* commands ".." lead to the root, and ".." at the root stays at the root.
C20_ParentDirectory ==
    /\ IsCdUp
         => /\ current_dir = ParentOf(pre_dir)
            /\ fs_entries = pre
            /\ out = <<>>
    /\ UpN(fs_entries, current_dir, NumSeps(current_dir) + 1) = <<>>
    /\ cli_cmd_cd(fs_entries, <<>>, <<".", ".">>).dir = <<>>

\* ".." has led from a directory two levels deep to its parent.
C20_Witness ==
    /\ IsCdUp
    /\ HasSlash(pre_dir)
    /\ current_dir # <<>>
    /\ current_dir = ParentOf(pre_dir)

(* ---------------- C13 ---------------- *)

\* The case C13 speaks of: a non-empty prefix and a name without separator,
\* joined, then split, all in name buffers of the interpreter.
JoinedAndSplit ==
    /\ path.stage = "done"
    /\ path.size = NAME_BUF
    /\ path.dir # <<>>
    /\ ~HasSlash(path.name)

\* C13 as it is stated: for every non-empty prefix p and every name n without
\* separator, parent(join(p, n)) = p and basename(join(p, n)) = n.
C13_JoinSplit_Original ==
    JoinedAndSplit => (path.parent = path.dir /\ path.base = path.name)

\* C13, amended: the same, when prefix, separator and name fit in the name
\* buffer (|p| + 1 + |n| is at most the maximum name length).
C13_JoinSplit ==
    (JoinedAndSplit
       /\ Len(path.dir) + 1 + Len(path.name) <= ENIXNEL_MAX_NAME_LEN)
        => (path.parent = path.dir /\ path.base = path.name)

\* A prefix that holds a separator and a non-empty name fill the buffer
\* exactly and have been joined and split.
C13_Witness ==
    /\ JoinedAndSplit
    /\ HasSlash(path.dir)
    /\ path.name # <<>>
    /\ Len(path.dir) + 1 + Len(path.name) = ENIXNEL_MAX_NAME_LEN
    /\ path.parent = path.dir

(* ---------------- C14 ---------------- *)

\* The bound B of C14: the characters an output buffer of path.size holds.
JoinBound == path.size - 1

\* C14: join(prefix, name) with output bound B is name cut to at most B
\* characters when prefix is empty, and otherwise the first
\* min(|prefix| + 1 + |name|, B) characters of prefix + separator + name; it
\* always has a result, of at most B characters.
C14_JoinResult ==
    path.stage # "in"
      => LET whole == path.dir \o <<"/">> \o path.name
         IN  /\ path.dir = <<>>
               => path.joined
                    = SubSeq(path.name, 1, Min(Len(path.name), JoinBound))
             /\ path.dir # <<>>
               => path.joined
                    = SubSeq(whole, 1, Min(Len(whole), JoinBound))
             /\ Len(path.joined) <= JoinBound

\* A join that was cut inside the name.
C14_Witness ==
    /\ path.stage = "joined"
    /\ path.dir # <<>>
    /\ Len(path.dir) + 1 < JoinBound
    /\ Len(path.dir) + 1 + Len(path.name) > JoinBound
    /\ Len(path.joined) = JoinBound

(* ---------------- C17 ---------------- *)

\* C17: create with an empty name or with a name longer than the maximum
\* length fails and leaves the table unchanged; a name of exactly the maximum
\* length that is not present, with a free slot, is accepted and stored in
\* full.
C17_NameLength ==
    IsCreate
      => /\ (Len(call.name) = 0 \/ Len(call.name) > ENIXNEL_MAX_NAME_LEN)
              => (call.ret = -1 /\ fs_entries = pre)
         /\ (Len(call.name) = ENIXNEL_MAX_NAME_LEN
               /\ ~HasName(pre, call.name) /\ HasFree(pre))
              => /\ call.ret = 0
                 /\ \E i \in Slots : /\ pre[i].used = 0
                                     /\ fs_entries[i].used = 1
                                     /\ fs_entries[i].name = call.name
                                     /\ Len(fs_entries[i].name)
                                          = ENIXNEL_MAX_NAME_LEN

\* A name one character too long has been refused although a slot is free
\* and the name is not present.
C17_Witness ==
    /\ IsCreate
    /\ Len(call.name) = ENIXNEL_MAX_NAME_LEN + 1
    /\ HasFree(pre)
    /\ ~HasName(pre, call.name)
    /\ call.ret = -1
    /\ fs_entries = pre

(* ---------------- C18 ---------------- *)

\* The used entries of t that have name as derived parent.
Children(t, name) ==
    {j \in UsedSlots(t) : path_parent(t[j].name, NAME_BUF) = name}

\* C18: a successful delete frees exactly the one slot that held the name and
\* leaves every other slot unchanged; afterwards find reports not-found and
\* the name can be created with either kind; delete-directory of a Directory
\* succeeds whether or not used entries have it as derived parent, and those
\* entries stay unchanged.
C18_DeleteFreesOneSlot ==
    /\ (IsDelete /\ call.ret = 0)
         => /\ \E i \in SlotsNamed(pre, call.name) :
                 /\ fs_entries[i].used = 0
                 /\ \A j \in Slots \ {i} : fs_entries[j] = pre[j]
            /\ fs_find_index(fs_entries, call.name) = -1
            /\ fs_create_dir(fs_entries, call.name).ret = 0
            /\ fs_create_file(fs_entries, call.name).ret = 0
    /\ (Returned /\ call.op = "delete_dir" /\ IsDir(pre, call.name))
         => /\ call.ret = 0
            /\ \A j \in Children(pre, call.name) : fs_entries[j] = pre[j]

\* A Directory that a used entry has as derived parent has been deleted, and
\* that entry is still in the table.
C18_Witness ==
    /\ Returned
    /\ call.op = "delete_dir"
    /\ call.ret = 0
    /\ Children(pre, call.name) # {}
    /\ \A j \in Children(pre, call.name) :
         fs_entries[j].used = 1 /\ fs_entries[j] = pre[j]

(* ---------------- C19 ---------------- *)

\* The slot a successful create has filled.
CreatedSlot == CHOOSE i \in Slots : pre[i].used = 0 /\ fs_entries[i].used = 1

\* The position of line x in the listing l (0 if it is not there).
PositionIn(l, x) ==
    IF \E k \in 1 .. Len(l) : l[k] = x
    THEN CHOOSE k \in 1 .. Len(l) : l[k] = x
    ELSE 0

\* C19: a successful create occupies the free slot of lowest index at the
\* time of the call; in a listing of its directory the new entry stands
\* before every entry of a higher slot, created earlier or not.
C19_LowestFreeSlot ==
    (IsCreate /\ call.ret = 0)
      => /\ \E i \in Slots : pre[i].used = 0 /\ fs_entries[i].used = 1
         /\ pre[CreatedSlot].used = 0
         /\ \A j \in Slots : j < CreatedSlot => pre[j].used = 1
         /\ fs_entries[CreatedSlot].name = call.name
         /\ \A j \in Slots \ {CreatedSlot} : fs_entries[j] = pre[j]
         /\ LET dir == path_parent(call.name, NAME_BUF)
                l == cli_cmd_sdir(fs_entries, dir)
            IN  \A j \in Children(fs_entries, dir) :
                  j > CreatedSlot
                    => /\ PositionIn(l, SdirLine(fs_entries, CreatedSlot)) > 0
                       /\ PositionIn(l, SdirLine(fs_entries, CreatedSlot))
                            < PositionIn(l, SdirLine(fs_entries, j))

\* After a delete, a create has taken a freed slot below an entry of the same
\* directory that was created earlier, and is listed before it.
C19_Witness ==
    /\ IsCreate
    /\ call.ret = 0
    /\ ncalls >= 2
    /\ \E j \in Children(pre, path_parent(call.name, NAME_BUF)) :
         /\ j > CreatedSlot
         /\ PositionIn(cli_cmd_sdir(fs_entries,
                                    path_parent(call.name, NAME_BUF)),
                       SdirLine(fs_entries, CreatedSlot)) = 1

(* ---------------- C21 ---------------- *)

\* A File has just been created, by create-file or by the auto-create of a
\* write, in a slot that a deleted File left with content.
CreatedOnStale ==
    /\ Returned
    /\ call.op \in {"create_file", "write"}
    /\ call.ret = 0
    /\ ~HasName(pre, call.name)
    /\ \E i \in Slots : pre[i].used = 0 /\ fs_entries[i].used = 1
    /\ pre[CreatedSlot].size > 0

\* What a read of name returns on table t.
ReadBack(t, name) ==
    LET r == fs_read_file(t, name)
    IN  SubSeq(r.out_data, 1, r.out_len)

\* C21: a File created in the slot of a deleted File that had content reads
\* back with length 0 until it is written (with the bytes of the creating
\* write, when a write created it), and an Append write to it yields exactly
\* the appended bytes, as far as they fit.
C21_DeletedContentGone ==
    CreatedOnStale
      => /\ call.op = "create_file"
              => /\ fs_read_file(fs_entries, call.name).ret = 0
                 /\ fs_read_file(fs_entries, call.name).out_len = 0
                 /\ \A b \in DataInputs :
                      LET w == fs_write_file(fs_entries, call.name, b, 1)
                      IN  /\ w.ret = 0
                          /\ ReadBack(w.fs, call.name)
                               = Take(b, ENIXNEL_MAX_FILE_SIZE)
         /\ (call.op = "write" /\ call.append = 1)
              => ReadBack(fs_entries, call.name)
                   = Take(call.data, ENIXNEL_MAX_FILE_SIZE)

\* The same for writes that stay below the capacity of a File.
C21_BelowCapacity ==
    CreatedOnStale
      => /\ call.op = "create_file"
              => /\ fs_read_file(fs_entries, call.name).out_len = 0
                 /\ \A b \in DataInputs :
                      Len(b) < ENIXNEL_MAX_FILE_SIZE
                        => ReadBack(fs_write_file(fs_entries, call.name,
                                                  b, 1).fs, call.name) = b
         /\ (call.op = "write" /\ call.append = 1
               /\ Len(call.data) < ENIXNEL_MAX_FILE_SIZE)
              => ReadBack(fs_entries, call.name) = call.data

(* ---------------- C22 ---------------- *)

IsEfile == IsLine /\ Cmd = CMD_efile

\* The argument of the edit command: the line after the command word.
EditArg == cli_split_command(call.name, CMD_SIZE).args

\* The position of the first '>' of a, 0 if it has none.
Marker(a) ==
    IF \E k \in 1 .. Len(a) : a[k] = ">"
    THEN CHOOSE k \in 1 .. Len(a) :
           a[k] = ">" /\ \A j \in 1 .. (k - 1) : a[j] # ">"
    ELSE 0

\* The first '>' is immediately followed by a second one.
Doubled(a) == Marker(a) > 0 /\ Marker(a) < Len(a) /\ a[Marker(a) + 1] = ">"

\* s without its trailing spaces.
NoTrailingSpaces(s) ==
    SubSeq(s, 1, CHOOSE n \in 0 .. Len(s) :
                   /\ n = 0 \/ s[n] # " "
                   /\ \A j \in (n + 1) .. Len(s) : s[j] = " ")

\* The first space-delimited token of s.
FirstToken(s) ==
    LET from == CHOOSE n \in 1 .. (Len(s) + 1) :
                  /\ \A j \in 1 .. (n - 1) : s[j] = " "
                  /\ n = Len(s) + 1 \/ s[n] # " "
        to == CHOOSE n \in (from - 1) .. Len(s) :
                /\ \A j \in from .. n : s[j] # " "
                /\ n = Len(s) \/ s[n + 1] = " "
    IN  SubSeq(s, from, to)

\* The text, the file name and the target of the edit command, by the words
\* of C22.
EditText == NoTrailingSpaces(SubSeq(EditArg, 1, Marker(EditArg) - 1))

EditBytes == [i \in 1 .. Len(EditText) |-> Ascii(EditText[i])]

EditName ==
    FirstToken(SubSeq(EditArg,
                      Marker(EditArg) + (IF Doubled(EditArg) THEN 2 ELSE 1),
                      Len(EditArg)))

EditTarget ==
    Take(pre_dir \o (IF pre_dir = <<>> THEN <<>> ELSE <<"/">>) \o EditName,
         ENIXNEL_MAX_NAME_LEN)

\* C22: the edit command writes in Append mode exactly when the first '>' of
\* its argument is immediately followed by a second '>', in Overwrite mode
\* otherwise; it writes the argument up to the first '>' without trailing
\* spaces to the first token after the marker joined with the current
\* directory; with no '>' or no file name it changes nothing.
C22_EditCommand ==
    IsEfile
      => /\ current_dir = pre_dir
         /\ (Marker(EditArg) = 0 \/ EditName = <<>>) => fs_entries = pre
         /\ (Marker(EditArg) > 0 /\ EditName # <<>>)
              => fs_entries
                   = fs_write_file(pre, EditTarget, EditBytes,
                                   IF Doubled(EditArg) THEN 1 ELSE 0).fs

\* An edit with ">>" has appended its text to a File that had content.
C22_Witness ==
    /\ IsEfile
    /\ Doubled(EditArg)
    /\ EditText # <<>>
    /\ \E i \in SlotsNamed(pre, EditTarget) :
         /\ pre[i].size > 0
         /\ fs_entries[i].size = pre[i].size + Len(EditText)

\* An edit with a single '>' and spaces before it has replaced the content
\* of a File by the text without the spaces.
C22_WitnessOverwrite ==
    /\ IsEfile
    /\ ~Doubled(EditArg)
    /\ Marker(EditArg) > 2
    /\ EditArg[Marker(EditArg) - 1] = " "
    /\ \E i \in SlotsNamed(pre, EditTarget) :
         /\ pre[i].size > 0
         /\ fs_entries[i].size = Len(EditText)

(* ---------------- C23 ---------------- *)

\* C23: in every state the interpreter reaches, the current directory is the
\* empty root string or the name of a used entry of kind Directory.
C23_CurrentDirExists ==
    current_dir = <<>> \/ IsDir(fs_entries, current_dir)

\* A delete command makes the current directory vanish only when the current
\* directory fills the name buffer.
C23_Probe_DeletedFromInside ==
    (IsLine /\ Cmd \in {CMD_deldir, CMD_dfile}
       /\ IsDir(pre, pre_dir) /\ ~IsDir(fs_entries, pre_dir))
      => Len(pre_dir) = ENIXNEL_MAX_NAME_LEN

(* ---------------- C24 ---------------- *)

\* The commands that take a name and resolve it in the current directory.
NameCommands ==
    {CMD_crtdir, CMD_cfile, CMD_deldir, CMD_dfile, CMD_sfile, CMD_efile,
     CMD_cd}

\* The name argument of the line that has been handled.
NameArg == IF Cmd = CMD_efile THEN EditName ELSE Arg

\* The line is a command with a non-empty name that is resolved in the
\* current directory, a non-empty string.
ResolvesName ==
    /\ IsLine
    /\ Cmd \in NameCommands
    /\ pre_dir # <<>>
    /\ NameArg # <<>>
    /\ Cmd = CMD_cd => NameArg \notin {<<".">>, <<".", ".">>}
    /\ Cmd = CMD_efile => Marker(EditArg) > 0

\* The full name the command passes to the table.
PassedName == path_join(pre_dir, NameArg, NAME_BUF)

\* s starts with the current directory and the separator.
InsidePreDir(s) ==
    /\ Len(s) >= Len(pre_dir) + 1
    /\ SubSeq(s, 1, Len(pre_dir) + 1) = pre_dir \o <<"/">>

\* C24: with a non-empty current directory d, every create, delete, show,
\* edit and change-directory command with a non-empty name passes to the
\* table a full name that starts with d and the separator; so it changes no
\* slot whose entry, before or after, is a used entry named d or named
\* outside d.
C24_NamesStayInside ==
    ResolvesName
      => /\ InsidePreDir(PassedName)
         /\ \A i \in Slots :
              fs_entries[i] # pre[i]
                => /\ pre[i].used = 1 => InsidePreDir(pre[i].name)
                   /\ fs_entries[i].used = 1
                        => InsidePreDir(fs_entries[i].name)

\* The same for a current directory that leaves room in the name buffer for
\* the separator.
C24_Probe_WithRoom ==
    (ResolvesName /\ Len(pre_dir) < ENIXNEL_MAX_NAME_LEN)
      => /\ InsidePreDir(PassedName)
         /\ \A i \in Slots :
              fs_entries[i] # pre[i]
                => /\ pre[i].used = 1 => InsidePreDir(pre[i].name)
                   /\ fs_entries[i].used = 1
                        => InsidePreDir(fs_entries[i].name)

====
